---- MODULE Spec2Model ----
(***************************************************************************)
(* A model of helical's gene-identifier pipeline:                          *)
(*   - load_gene_embeddings_adata  (helical/models/uce/gene_embeddings.py) *)
(*   - Preprocessor.map_ensbl_to_name            (helical/preprocessor.py) *)
(*   - Geneformer.process_data      (helical/models/geneformer/model.py)   *)
(*                                                                         *)
(* A gene symbol is a Python str, modelled as a sequence of one-character  *)
(* strings, so that str.lower() is computed character by character.  A     *)
(* Python dict is a function; where the code iterates a dict, its          *)
(* insertion order is kept beside it as a sequence of keys.  A raised      *)
(* exception is recorded by its Python class name in `error`.              *)
(***************************************************************************)
EXTENDS Integers, Sequences, FiniteSets, TLC

VARIABLES
    \* ---- load_gene_embeddings_adata ----
    var_names,      \* adata.var_names of the argument, as passed in
    species_names,  \* the `species` argument (a list)
    files,          \* what torch.load returns per file: the keys, in dict order
    dims,           \* the vector dimension of each file's embeddings
    pc,             \* position in load_gene_embeddings_adata
    species_to_gene_symbol_to_embedding,  \* line 56
    genes_with_embeddings,                \* line 65
    adata,          \* var_names of the local `adata` (rebound on line 71)
    species_to_gene_embeddings,           \* line 73
    error,          \* the exception that ended the call, or "none"
    returned,       \* TRUE once line 81 returned the tuple
    \* ---- Preprocessor.map_ensbl_to_name ----
    pre_pc,         \* "idle", "call" or "done"
    pre_input,      \* the rows pd.read_csv returned, in file order
    pre_mapping,    \* the dict pkl.load returned
    pre_output,     \* the rows of the returned DataFrame
    pre_error,      \* the exception that ended the call, or "none"
    \* ---- Geneformer.process_data ----
    gf_pc,          \* "idle", "call" or "done"
    use_gene_symbols,
    gene_symbols,   \* data.var['gene_symbols']
    ensembl_id,     \* data.var['ensembl_id']
    mappings,       \* the dict pkl.load returned (line 118)
    token_file,     \* the items of the pickled token dictionary, in dict order
    gene_token_dict,
    token_gene_dict,
    pad_token_id,   \* {} for None, {t} for token id t
    \* ---- Classifier ----
    cl_pc,          \* "idle", or "ready" once __init__ has run
    cl_labels,      \* the `labels` argument of __init__
    encoder_classes,\* self.encoder.classes_
    num_types,
    y_encoded,      \* the class index of each training label (one-hot in the code)
    trained_models,
    x_train_names,  \* history: the model names of every x_train passed so far
    cl_call,        \* the last method call: its arguments and what it returned or raised
    \* ---- Preprocessor.transform_table ----
    tt_pc,          \* "idle", "call" (transform_table is called) or "done"
    full_df,        \* the expression rows: the group a row was built from (not
                    \* stored by the code) and its dict gene_name -> count
    full_obs,       \* the metadata rows as the loop of lines 82-91 concatenates them
    adata_obs,      \* adata.obs as written to the h5ad file (lines 96-102)
    tt_error        \* the exception that ended the call, or "none"

alignVars == <<var_names, species_names, files, dims, pc,
               species_to_gene_symbol_to_embedding, genes_with_embeddings,
               adata, species_to_gene_embeddings, error, returned>>

preVars == <<pre_pc, pre_input, pre_mapping, pre_output, pre_error>>

gfVars == <<gf_pc, use_gene_symbols, gene_symbols, ensembl_id, mappings,
            token_file, gene_token_dict, token_gene_dict, pad_token_id>>

clVars == <<cl_pc, cl_labels, encoder_classes, num_types, y_encoded,
            trained_models, x_train_names, cl_call>>

ttVars == <<tt_pc, full_df, full_obs, adata_obs, tt_error>>

vars == <<alignVars, preVars, gfVars, clVars, ttVars>>

(***************************************************************************)
(* Bounds of the model                                                     *)
(***************************************************************************)
MaxGenes == 2       \* columns of the input dataset
MaxSpecies == 2     \* length of the requested species list
MaxRows == 2        \* rows of the expression table / of data.var
MaxTokenId == 2     \* largest token id of a token dictionary
MaxSymLen == 2      \* longest identifier of the normalisation cases
MaxLabels == 2      \* length of a label list
MaxTableRows == 2   \* rows of the expression table given to transform_table

\* The strings the model draws gene symbols from ("ab", "Ab", "B").
GenePool == { <<"a", "b">>, <<"A", "b">>, <<"B">> }
\* The species a caller asks for: two registered ones and one that is not.
SpeciesPool == { "human", "mouse", "alien" }
\* Embedding widths a file may have.
Dims == { 2, 3 }
MinDim == CHOOSE d \in Dims : \A e \in Dims : d <= e

(***************************************************************************)
(* Helpers on sequences and dicts                                          *)
(***************************************************************************)
SeqsUpTo(S, n) == UNION { [1..k -> S] : k \in 0..n }

Range(s) == { s[i] : i \in DOMAIN s }

DistinctSeqsUpTo(S, n) == { s \in SeqsUpTo(S, n) : Cardinality(Range(s)) = Len(s) }

EmptyDict == [x \in {} |-> x]

\* The dicts with keys among K and values in V.
Dicts(K, V) == UNION { [D -> V] : D \in SUBSET K }

\* The elements of s at the positions where keep(s[i]) holds, in order.
RECURSIVE SelectKept(_, _)
SelectKept(s, kept) ==
    IF s = <<>> THEN <<>>
    ELSE IF Head(s) \in kept
         THEN <<Head(s)>> \o SelectKept(Tail(s), kept)
         ELSE SelectKept(Tail(s), kept)

(***************************************************************************)
(* str.lower()                                                             *)
(***************************************************************************)
LowerChar(c) ==
    CASE c = "A" -> "a"
      [] c = "B" -> "b"
      [] OTHER -> c

Lower(sym) == [i \in DOMAIN sym |-> LowerChar(sym[i])]

(***************************************************************************)
(* get_gene_embedding_paths: the registry of species with an ESM2 file     *)
(***************************************************************************)
\* embedding_model is 'ESM2', the only model the registry has (line 13).
available_species ==
    { "human", "mouse", "frog", "zebrafish", "mouse_lemur", "pig",
      "macaca_fascicularis", "macaca_mulatta" }

\* The species whose file contents the model varies.
FileSpecies == SpeciesPool \cap available_species

\* The tensor stored in species sp's file under raw key k.
Vec(sp, k) == [species |-> sp, key |-> k, dim |-> dims[sp]]

(***************************************************************************)
(* load_gene_embeddings_adata, line by line                                *)
(***************************************************************************)

\* The check with "any" for "all": one registered species is enough to pass.
SpeciesSupportedAny(names) == Range(names) \cap available_species # {}

\* line 53: species_names_set <= available_species
SpeciesSupported(names) == Range(names) \subseteq available_species

\* lines 57-60: {gene_symbol.lower(): gene_embedding for ... in torch.load(..).items()}
\* A later item overwrites an earlier one with the same lower-cased key.
LoweredTable(sp) ==
    LET ks == files[sp]
        lowered == { Lower(ks[i]) : i \in DOMAIN ks }
        lastIdx(lk) == CHOOSE i \in DOMAIN ks :
                          /\ Lower(ks[i]) = lk
                          /\ \A j \in DOMAIN ks : Lower(ks[j]) = lk => j <= i
    IN [lk \in lowered |-> Vec(sp, ks[lastIdx(lk)])]

\* lines 56-62: the outer dict comprehension over species_names
LoadAll(names) == [sp \in Range(names) |-> LoweredTable(sp)]

\* The keys of any table instead of the keys common to all.
UnionKeys(tables) == UNION { DOMAIN tables[sp] : sp \in DOMAIN tables }

\* lines 65-68: set.intersection(*[set(d) for d in tables.values()])
IntersectKeys(tables) ==
    { g \in UNION { DOMAIN tables[sp] : sp \in DOMAIN tables } :
         \A sp \in DOMAIN tables : g \in DOMAIN tables[sp] }

\* The membership test without .lower() on the dataset's gene.
GenesToUseExact(names, withEmb) == { g \in Range(names) : g \in withEmb }

\* line 69: {gene for gene in adata.var_names if gene.lower() in genes_with_embeddings}
GenesToUse(names, withEmb) == { g \in Range(names) : Lower(g) \in withEmb }

\* A subset that renames the kept columns to their lower-cased form.
SubsetColumnsLowered(names, genes_to_use) ==
    [i \in DOMAIN SelectKept(names, genes_to_use) |-> Lower(SelectKept(names, genes_to_use)[i])]

\* line 71: adata[:, adata.var_names.isin(genes_to_use)]  (a boolean column mask)
SubsetColumns(names, genes_to_use) == SelectKept(names, genes_to_use)

\* The lookup without .lower().
LookupKeyRaw(gene_symbol) == gene_symbol

\* line 75: the key looked up for one column
LookupKey(gene_symbol) == Lower(gene_symbol)

\* line 76: the columns the matrices are built over
StackColumns == adata

\* A stack that accepts an empty list of tensors (and yields an empty matrix).
StackStatusAcceptsEmpty(tables, sp, cols) ==
    IF \E i \in DOMAIN cols : LookupKey(cols[i]) \notin DOMAIN tables[sp]
    THEN "KeyError"
    ELSE "none"

\* lines 74-77 for one species: "KeyError" when a lookup misses, "RuntimeError"
\* when torch.stack gets an empty list or tensors of different shapes.
StackStatus(tables, sp, cols) ==
    IF \E i \in DOMAIN cols : LookupKey(cols[i]) \notin DOMAIN tables[sp]
    THEN "KeyError"
    ELSE IF cols = <<>> THEN "RuntimeError"
    ELSE IF \E i, j \in DOMAIN cols :
               tables[sp][LookupKey(cols[i])].dim # tables[sp][LookupKey(cols[j])].dim
    THEN "RuntimeError"
    ELSE "none"

StackRows(tables, sp, cols) == [i \in DOMAIN cols |-> tables[sp][LookupKey(cols[i])]]

\* The first species, in list order, whose matrix cannot be built (0 if none).
FirstFailing(tables, names, cols) ==
    IF \E i \in DOMAIN names : StackStatus(tables, names[i], cols) # "none"
    THEN CHOOSE i \in DOMAIN names :
            /\ StackStatus(tables, names[i], cols) # "none"
            /\ \A j \in 1..(i - 1) : StackStatus(tables, names[j], cols) = "none"
    ELSE 0

(***************************************************************************)
(* Actions                                                                 *)
(***************************************************************************)

\* lines 44-54
CheckSpecies ==
    /\ pc = "check"
    /\ IF SpeciesSupported(species_names)
       THEN /\ pc' = "load"
            /\ error' = error
       ELSE /\ pc' = "done"
            /\ error' = "ValueError"
    /\ UNCHANGED <<var_names, species_names, files, dims,
                   species_to_gene_symbol_to_embedding, genes_with_embeddings,
                   adata, species_to_gene_embeddings, returned, preVars, gfVars, clVars, ttVars>>

\* lines 56-62.  species_to_gene_embedding_path[species] raises KeyError for a
\* species without a path; the tables loaded before it stay loaded.
LoadEmbeddings ==
    /\ pc = "load"
    /\ IF Range(species_names) \subseteq FileSpecies
       THEN /\ species_to_gene_symbol_to_embedding' = LoadAll(species_names)
            /\ pc' = "intersect"
            /\ error' = error
       ELSE /\ species_to_gene_symbol_to_embedding' =
                  LET bad == CHOOSE i \in DOMAIN species_names :
                                /\ species_names[i] \notin FileSpecies
                                /\ \A j \in 1..(i - 1) : species_names[j] \in FileSpecies
                  IN LoadAll(SubSeq(species_names, 1, bad - 1))
            /\ pc' = "done"
            /\ error' = "KeyError"
    /\ UNCHANGED <<var_names, species_names, files, dims, genes_with_embeddings,
                   adata, species_to_gene_embeddings, returned, preVars, gfVars, clVars, ttVars>>

\* lines 65-68.  With no species, set.intersection() has no argument: TypeError.
Intersect ==
    /\ pc = "intersect"
    /\ IF species_names = <<>>
       THEN /\ pc' = "done"
            /\ error' = "TypeError"
            /\ UNCHANGED genes_with_embeddings
       ELSE /\ genes_with_embeddings' = IntersectKeys(species_to_gene_symbol_to_embedding)
            /\ pc' = "subset"
            /\ error' = error
    /\ UNCHANGED <<var_names, species_names, files, dims,
                   species_to_gene_symbol_to_embedding,
                   adata, species_to_gene_embeddings, returned, preVars, gfVars, clVars, ttVars>>

\* lines 69-71
Subset ==
    /\ pc = "subset"
    /\ adata' = SubsetColumns(adata, GenesToUse(adata, genes_with_embeddings))
    /\ pc' = "stack"
    /\ UNCHANGED <<var_names, species_names, files, dims,
                   species_to_gene_symbol_to_embedding, genes_with_embeddings,
                   species_to_gene_embeddings, error, returned, preVars, gfVars, clVars, ttVars>>

\* lines 73-81
StackAndReturn ==
    /\ pc = "stack"
    /\ LET tables == species_to_gene_symbol_to_embedding
           cols == StackColumns
           bad == FirstFailing(tables, species_names, cols)
       IN IF bad = 0
          THEN /\ species_to_gene_embeddings' =
                     [sp \in Range(species_names) |-> StackRows(tables, sp, cols)]
               /\ error' = error
               /\ returned' = TRUE
          ELSE /\ UNCHANGED species_to_gene_embeddings
               /\ error' = StackStatus(tables, species_names[bad], cols)
               /\ returned' = FALSE
    /\ pc' = "done"
    /\ UNCHANGED <<var_names, species_names, files, dims,
                   species_to_gene_symbol_to_embedding, genes_with_embeddings, adata,
                   preVars, gfVars, clVars, ttVars>>

(***************************************************************************)
(* Values of a pandas object column: a str, float nan, or None             *)
(***************************************************************************)
Str(x) == [kind |-> "str", s |-> x]
NaN == [kind |-> "nan", s |-> <<>>]
None == [kind |-> "none", s |-> <<>>]

\* pandas' isna: dropna drops float nan and None alike
IsNa(v) == v.kind \in { "nan", "none" }

(***************************************************************************)
(* Preprocessor.map_ensbl_to_name                                          *)
(***************************************************************************)

\* line 56: input.dropna(subset=['egid'])
DropNaEgid(rows) == SelectSeq(rows, LAMBDA r : ~IsNa(r.egid))

\* line 57: mapping[x] raises KeyError for an egid that is no key of the mapping
LookupRaises(mapping, x) == x.s \notin DOMAIN mapping

\* line 57: mapping[x].get('display_name', np.nan)
DisplayName(mapping, x) ==
    IF mapping[x.s].has_display_name THEN mapping[x.s].display_name ELSE NaN

\* line 58: x.lower() if type(x) is str else x
LowerIfStr(v) == IF v.kind = "str" THEN Str(Lower(v.s)) ELSE v

\* line 59: input.dropna(subset=['gene_name'])
DropNaGeneName(rows) == SelectSeq(rows, LAMBDA r : ~IsNa(r.gene_name))

\* lines 51-60, the whole method
MapEnsblToName ==
    /\ pre_pc = "call"
    /\ LET rows == DropNaEgid(pre_input)
       IN IF \E i \in DOMAIN rows : LookupRaises(pre_mapping, rows[i].egid)
          THEN /\ pre_error' = "KeyError"
               /\ UNCHANGED pre_output
          ELSE /\ pre_error' = "none"
               /\ pre_output' = DropNaGeneName(
                      [i \in DOMAIN rows |->
                          [row |-> rows[i].row, egid |-> rows[i].egid,
                           gene_name |-> LowerIfStr(DisplayName(pre_mapping, rows[i].egid))]])
    /\ pre_pc' = "done"
    /\ UNCHANGED <<pre_input, pre_mapping, alignVars, gfVars, clVars, ttVars>>

(***************************************************************************)
(* Preprocessor.transform_table, lines 62-105.  A row of the expression    *)
(* table holds, besides 'egid', the group columns 'subject' and 'sample',  *)
(* the count column 'rcnt' and the metadata columns 'batch' and            *)
(* 'duration'.                                                             *)
(***************************************************************************)

\* A number in a column that may also hold nan
Num(n) == [kind |-> "num", s |-> <<n>>]

\* line 75: the rows map_ensbl_to_name returns, each with the other columns of
\* the row of the input it was made from
GeneExpressions(input, output) ==
    [i \in DOMAIN output |->
        [row |-> output[i].row, gene_name |-> output[i].gene_name.s,
         subject |-> input[output[i].row].subject,
         sample |-> input[output[i].row].sample,
         rcnt |-> input[output[i].row].rcnt,
         batch |-> input[output[i].row].batch,
         duration |-> input[output[i].row].duration]]

\* line 82: groupby(['subject','sample']) makes one group per pair of values
GroupKeys(rows) == { <<r.subject, r.sample>> : r \in Range(rows) }

\* line 82: groupby iterates over the groups in the order of their keys
KeyBefore(a, b) == a[1] < b[1] \/ (a[1] = b[1] /\ a[2] <= b[2])

RECURSIVE SortedKeys(_)
SortedKeys(S) ==
    IF S = {} THEN <<>>
    ELSE LET least == CHOOSE k \in S : \A j \in S : KeyBefore(k, j)
         IN <<least>> \o SortedKeys(S \ { least })

GroupRows(rows, k) == { r \in Range(rows) : <<r.subject, r.sample>> = k }

GroupGenes(G) == { r.gene_name : r \in G }

\* line 85: sort_values(['gene_name', count_column]) puts the rows of a gene in
\* the order of their counts with nan last, and drop_duplicates(keep='last')
\* keeps the last of them; which of several rows with the same count comes
\* last is left to the sort.
LastOfGene(G, g) ==
    LET C == { r \in G : r.gene_name = g }
    IN IF \E r \in C : IsNa(r.rcnt)
       THEN { r \in C : IsNa(r.rcnt) }
       ELSE { r \in C : \A q \in C : q.rcnt.s[1] <= r.rcnt.s[1] }

\* line 85: keep holds, of every group and every gene of it, one last row
KeepsLast(rows, keep) ==
    \A k \in GroupKeys(rows) :
        \A g \in GroupGenes(GroupRows(rows, k)) :
            \E r \in LastOfGene(GroupRows(rows, k), g) :
                { q \in keep : <<q.subject, q.sample>> = k /\ q.gene_name = g } = { r }

\* line 85: .dropna() then drops every kept row that holds a nan
UniqueGeneExpressions(rows, keep, k) ==
    { r \in keep \cap GroupRows(rows, k) : ~IsNa(r.rcnt) }

\* line 86: the one-row frame gene_name -> count of the group
ExpressionRow(U) ==
    [g \in GroupGenes(U) |-> (CHOOSE r \in U : r.gene_name = g).rcnt.s[1]]

\* The order of str gene names
GeneNameRank(n) == CASE n = <<"a", "b">> -> 1 [] n = <<"b">> -> 2

RECURSIVE SortedByGene(_)
SortedByGene(U) ==
    IF U = {} THEN <<>>
    ELSE LET first == CHOOSE r \in U :
                          \A q \in U : GeneNameRank(r.gene_name) <= GeneNameRank(q.gene_name)
         IN <<first>> \o SortedByGene(U \ { first })

\* line 90: drop(columns=['gene_name', 'Unnamed: 0', 'egid', 'rcnt', 'tpm'])
Metadata(r) ==
    [subject |-> r.subject, sample |-> r.sample, batch |-> r.batch, duration |-> r.duration]

\* line 90: drop_duplicates() keeps the first of equal rows
RECURSIVE DropDuplicates(_)
DropDuplicates(rows) ==
    IF rows = <<>> THEN <<>>
    ELSE LET front == DropDuplicates(SubSeq(rows, 1, Len(rows) - 1))
             last == rows[Len(rows)]
         IN IF last \in Range(front) THEN front ELSE Append(front, last)

\* line 90: the metadata rows of a group
ObsRows(U) ==
    LET sorted == SortedByGene(U)
    IN DropDuplicates([i \in DOMAIN sorted |-> Metadata(sorted[i])])

\* line 91: pd.concat of the metadata rows of the groups, in group order
RECURSIVE ConcatObs(_)
ConcatObs(frames) ==
    IF frames = <<>> THEN <<>> ELSE Head(frames) \o ConcatObs(Tail(frames))

\* line 97: astype(str) of a subject number
SubjectStr(n) == CASE n = 1 -> "1" [] n = 2 -> "2"

\* lines 97-101 on one row of adata.obs: the subject becomes a str, and a
\* duration of 2 or 9 in batch 1 becomes negative.  The reindex of line 98
\* orders the columns and changes no row.
FinishObs(o) ==
    [subject |-> SubjectStr(o.subject), sample |-> o.sample, batch |-> o.batch,
     duration |-> IF o.duration \in { 2, 9 } /\ o.batch = 1
                  THEN 0 - o.duration ELSE o.duration]

\* line 96: the setter of adata.obs raises ValueError unless the frame has as
\* many rows as X
ObsSetterRaises(df, obs) == Len(obs) # Len(df)

\* lines 75-102, the whole method, map_ensbl_to_name included
TransformTable ==
    /\ tt_pc = "call"
    /\ pre_pc = "call"
    /\ LET input == DropNaEgid(pre_input)
       IN IF \E i \in DOMAIN input : LookupRaises(pre_mapping, input[i].egid)
          THEN /\ pre_error' = "KeyError"
               /\ tt_error' = "KeyError"
               /\ UNCHANGED <<pre_output, full_df, full_obs, adata_obs>>
          ELSE /\ pre_error' = "none"
               /\ pre_output' = DropNaGeneName(
                      [i \in DOMAIN input |->
                          [row |-> input[i].row, egid |-> input[i].egid,
                           gene_name |-> LowerIfStr(DisplayName(pre_mapping, input[i].egid))]])
               /\ LET rows == GeneExpressions(pre_input, pre_output')
                      keys == SortedKeys(GroupKeys(rows))
                  IN \E keep \in SUBSET Range(rows) :
                        /\ KeepsLast(rows, keep)
                        /\ full_df' = [i \in DOMAIN keys |->
                               [group |-> keys[i],
                                X |-> ExpressionRow(UniqueGeneExpressions(rows, keep, keys[i]))]]
                        /\ full_obs' = ConcatObs([i \in DOMAIN keys |->
                               ObsRows(UniqueGeneExpressions(rows, keep, keys[i]))])
               /\ IF ObsSetterRaises(full_df', full_obs')
                  THEN /\ tt_error' = "ValueError"
                       /\ UNCHANGED adata_obs
                  ELSE /\ tt_error' = "none"
                       /\ adata_obs' = [i \in DOMAIN full_obs' |-> FinishObs(full_obs'[i])]
    /\ pre_pc' = "done"
    /\ tt_pc' = "done"
    /\ UNCHANGED <<pre_input, pre_mapping, alignVars, gfVars, clVars>>

(***************************************************************************)
(* Geneformer.process_data, lines 117-126 (the tokenizer it then calls is  *)
(* not part of these sources)                                              *)
(***************************************************************************)

\* line 119: mappings.get(x, {"id": None})['id']
MappedId(x) == IF x \in DOMAIN mappings THEN mappings[x] ELSE None

\* line 123: pickle.load(f), as a dict
LoadTokenDict(items) == [k \in { items[i].k : i \in DOMAIN items } |->
                            items[CHOOSE i \in DOMAIN items : items[i].k = k].v]

\* line 125: {v: k for k, v in self.gene_token_dict.items()}; a later item
\* overwrites an earlier one with the same token id
ReverseDict(items) ==
    LET lastIdx(t) == CHOOSE i \in DOMAIN items :
                         /\ items[i].v = t
                         /\ \A j \in DOMAIN items : items[j].v = t => j <= i
    IN [t \in { items[i].v : i \in DOMAIN items } |-> items[lastIdx(t)].k]

\* line 126: self.gene_token_dict.get("<pad>")
PadTokenId(d) == IF "<pad>" \in DOMAIN d THEN { d["<pad>"] } ELSE {}

ProcessData ==
    /\ gf_pc = "call"
    /\ ensembl_id' = IF use_gene_symbols
                     THEN [i \in DOMAIN gene_symbols |-> MappedId(gene_symbols[i])]
                     ELSE ensembl_id
    /\ gene_token_dict' = LoadTokenDict(token_file)
    /\ token_gene_dict' = ReverseDict(token_file)
    /\ pad_token_id' = PadTokenId(LoadTokenDict(token_file))
    /\ gf_pc' = "done"
    /\ UNCHANGED <<use_gene_symbols, gene_symbols, mappings, token_file,
                   alignVars, preVars, clVars, ttVars>>

(***************************************************************************)
(* Classifier (helical/benchmark/tasks/classifier.py)                      *)
(***************************************************************************)
\* Cell-type labels, and their place in sorted order ("B" < "T").
LabelPool == { "B", "T" }
LabelRank(l) == CASE l = "B" -> 1 [] l = "T" -> 2

\* Names of embedding models, feature matrices with their number of rows,
\* test_size in percent, and the class a task model predicts (for every row).
ModelNames == { "m1", "m2" }
Features ==
    { [id |-> "f1", rows |-> 2], [id |-> "f2", rows |-> 2], [id |-> "f3", rows |-> 1] }
TestSizes == { 20, 60 }
PredictedClasses == { 0 }

\* A dict model_name -> features as the sequence of its items, in the order
\* .items() gives them
ItemDicts ==
    { d \in SeqsUpTo([name : ModelNames, x : Features], Cardinality(ModelNames)) :
         \A i, j \in DOMAIN d : d[i].name = d[j].name => i = j }

Names(items) == { items[i].name : i \in DOMAIN items }

AsDict(items) ==
    [m \in Names(items) |-> items[CHOOSE i \in DOMAIN items : items[i].name = m].x]

\* A set of labels as the sorted array numpy.unique returns.
RECURSIVE SortedLabels(_)
SortedLabels(S) ==
    IF S = {} THEN <<>>
    ELSE LET least == CHOOSE l \in S : \A m \in S : LabelRank(l) <= LabelRank(m)
         IN <<least>> \o SortedLabels(S \ { least })

\* LabelEncoder.fit: classes_ is the sorted array of the distinct labels
FitClasses(ls) == SortedLabels(Range(ls))

\* LabelEncoder.transform: the 0-based position of each label in classes_
Transform(classes, ls) ==
    [i \in DOMAIN ls |-> (CHOOSE k \in DOMAIN classes : classes[k] = ls[i]) - 1]

\* line 88: self.encoder.fit_transform(eval_labels) fits the encoder again
EvalEncoderClasses(classes, eval_labels) == FitClasses(eval_labels)

\* lines 87-94 for one model: y_pred, y_true and the number of rows they agree on
Evaluation(y_pred, y_true) ==
    [y_true |-> y_true,
     correct |-> Cardinality({ i \in DOMAIN y_true : y_true[i] = y_pred[i] })]

\* An assignment of the new models in place of the update.
ReplaceModels(models, x_train) == [m \in DOMAIN x_train |-> [trained_on |-> x_train[m]]]

\* line 45: self.trained_models.update({model_name: trained_task_model})
UpdateModels(models, x_train) ==
    [m \in DOMAIN models \cup DOMAIN x_train |->
        IF m \in DOMAIN x_train THEN [trained_on |-> x_train[m]] ELSE models[m]]

\* line 40: the rows train_test_split puts in the test set, ceil(test_size * n)
NTest(n, test_size) == (test_size * n + 99) \div 100

\* line 40: train_test_split raises ValueError when x and y_encoded differ in
\* their number of rows, and when the train set would be empty
SplitRaises(x, y, test_size) ==
    \/ x.rows # Len(y)
    \/ Len(y) - NTest(Len(y), test_size) = 0

\* line 61: self.trained_models[model_name] raises KeyError for an unknown name
UnknownModel(models, model_name) == model_name \notin DOMAIN models

\* lines 15-24
ClassifierInit ==
    /\ cl_pc = "idle"
    /\ cl_labels # <<>>
    /\ num_types' = Cardinality(Range(cl_labels))
    /\ encoder_classes' = FitClasses(cl_labels)
    /\ y_encoded' = Transform(FitClasses(cl_labels), cl_labels)
    /\ trained_models' = EmptyDict
    /\ cl_call' = [op |-> "init", error |-> "none"]
    /\ cl_pc' = "ready"
    /\ UNCHANGED <<cl_labels, x_train_names, alignVars, preVars, gfVars, ttVars>>

\* lines 39-45.  The items of x_train are trained in order.  stop is the item
\* at which the call ends: train_test_split raises ValueError there, or
\* compile or train of the task model, which may raise at any item, does;
\* the models of the items before it are stored.  Past the last item the
\* call returns.
TrainTaskModels ==
    /\ cl_pc = "ready"
    /\ \E x_train \in ItemDicts : \E test_size \in TestSizes :
       \E stop \in 1..(Cardinality(ModelNames) + 1) :
          /\ stop <= Len(x_train) + 1
          /\ \A i \in 1..(stop - 1) : ~SplitRaises(x_train[i].x, y_encoded, test_size)
          /\ trained_models' =
                UpdateModels(trained_models, AsDict(SubSeq(x_train, 1, stop - 1)))
          /\ x_train_names' = x_train_names \cup Names(x_train)
          /\ cl_call' =
                [op |-> "train",
                 error |-> IF stop > Len(x_train) THEN "none"
                           ELSE IF SplitRaises(x_train[stop].x, y_encoded, test_size)
                                THEN "ValueError" ELSE "Exception",
                 x_train |-> x_train, stored |-> stop - 1]
    /\ UNCHANGED <<cl_pc, cl_labels, encoder_classes, num_types, y_encoded,
                   alignVars, preVars, gfVars, ttVars>>

\* lines 59-65.  stop is the item of x_eval at which the call ends: line 61
\* raises KeyError there, or predict of the trained model, which may raise at
\* any item, does.  Past the last item the call returns predictions.
GetPredictions ==
    /\ cl_pc = "ready"
    /\ \E x_eval \in ItemDicts : \E stop \in 1..(Cardinality(ModelNames) + 1) :
          /\ stop <= Len(x_eval) + 1
          /\ \A i \in 1..(stop - 1) : ~UnknownModel(trained_models, x_eval[i].name)
          /\ cl_call' =
                IF stop > Len(x_eval)
                THEN [op |-> "predict", error |-> "none", x_eval |-> x_eval,
                      predictions |-> [m \in Names(x_eval) |->
                          [model |-> trained_models[m], x |-> AsDict(x_eval)[m]]]]
                ELSE [op |-> "predict",
                      error |-> IF UnknownModel(trained_models, x_eval[stop].name)
                                THEN "KeyError" ELSE "Exception",
                      x_eval |-> x_eval]
    /\ UNCHANGED <<cl_pc, cl_labels, encoder_classes, num_types, y_encoded,
                   trained_models, x_train_names, alignVars, preVars, gfVars, ttVars>>

\* lines 82-97.  predictions_dict gives, per model, the class np.argmax finds
\* in every row.  With no model the loop body, and so line 88, never runs.
GetEvaluations ==
    /\ cl_pc = "ready"
    /\ \E eval_labels \in SeqsUpTo(LabelPool, MaxLabels) \ { <<>> } :
       \E predictions_dict \in Dicts(ModelNames, PredictedClasses) :
          LET classes == IF predictions_dict = EmptyDict
                         THEN encoder_classes
                         ELSE EvalEncoderClasses(encoder_classes, eval_labels)
              y_true == Transform(classes, eval_labels)
          IN /\ encoder_classes' = classes
             /\ cl_call' =
                   [op |-> "evaluate", error |-> "none", eval_labels |-> eval_labels,
                    evaluations |-> [m \in DOMAIN predictions_dict |->
                        Evaluation([i \in DOMAIN eval_labels |-> predictions_dict[m]],
                                   y_true)]]
    /\ UNCHANGED <<cl_pc, cl_labels, num_types, y_encoded, trained_models,
                   x_train_names, alignVars, preVars, gfVars, ttVars>>

(***************************************************************************)
(* Initial states: the arguments of one call, within the bounds            *)
(***************************************************************************)
AlignIdle ==
    /\ var_names = <<>>
    /\ species_names = <<>>
    /\ files = [sp \in FileSpecies |-> <<>>]
    /\ dims = [sp \in FileSpecies |-> MinDim]
    /\ pc = "idle"
    /\ species_to_gene_symbol_to_embedding = EmptyDict
    /\ genes_with_embeddings = {}
    /\ adata = <<>>
    /\ species_to_gene_embeddings = EmptyDict
    /\ error = "none"
    /\ returned = FALSE

PreIdle ==
    /\ pre_pc = "idle"
    /\ pre_input = <<>>
    /\ pre_mapping = EmptyDict
    /\ pre_output = <<>>
    /\ pre_error = "none"

GfIdle ==
    /\ gf_pc = "idle"
    /\ use_gene_symbols = FALSE
    /\ gene_symbols = <<>>
    /\ ensembl_id = <<>>
    /\ mappings = EmptyDict
    /\ token_file = <<>>
    /\ gene_token_dict = EmptyDict
    /\ token_gene_dict = EmptyDict
    /\ pad_token_id = {}

TtIdle ==
    /\ tt_pc = "idle"
    /\ full_df = <<>>
    /\ full_obs = <<>>
    /\ adata_obs = <<>>
    /\ tt_error = "none"

ClIdle ==
    /\ cl_pc = "idle"
    /\ cl_labels = <<>>
    /\ encoder_classes = <<>>
    /\ num_types = 0
    /\ y_encoded = <<>>
    /\ trained_models = EmptyDict
    /\ x_train_names = {}
    /\ cl_call = [op |-> "none", error |-> "none"]

\* The arguments of Classifier.__init__
ClNew ==
    /\ cl_pc = "idle"
    /\ cl_labels \in SeqsUpTo(LabelPool, MaxLabels) \ { <<>> }
    /\ encoder_classes = <<>>
    /\ num_types = 0
    /\ y_encoded = <<>>
    /\ trained_models = EmptyDict
    /\ x_train_names = {}
    /\ cl_call = [op |-> "none", error |-> "none"]

\* A call of load_gene_embeddings_adata.  The file of a species that is not
\* requested is never read and is left empty.
AlignCall ==
    /\ var_names \in SeqsUpTo(GenePool, MaxGenes)
    /\ species_names \in SeqsUpTo(SpeciesPool, MaxSpecies)
    /\ files \in [FileSpecies -> DistinctSeqsUpTo(GenePool, Cardinality(GenePool))]
    /\ dims \in [FileSpecies -> Dims]
    /\ \A sp \in FileSpecies \ Range(species_names) : files[sp] = <<>> /\ dims[sp] = MinDim
    /\ pc = "check"
    /\ species_to_gene_symbol_to_embedding = EmptyDict
    /\ genes_with_embeddings = {}
    /\ adata = var_names
    /\ species_to_gene_embeddings = EmptyDict
    /\ error = "none"
    /\ returned = FALSE

\* The Ensembl gene ids of the expression table, and what a mapping entry may
\* hold: no 'display_name', None, the empty string, or a name.
EgidPool == { <<"E1">>, <<"E2">> }
NamePool == GenePool \cup { <<>> }
MappingEntries ==
    { [has_display_name |-> FALSE, display_name |-> None] }
    \cup { [has_display_name |-> TRUE, display_name |-> v] :
              v \in { None } \cup { Str(n) : n \in NamePool } }

WithRowNumbers(egids) == [i \in DOMAIN egids |-> [row |-> i, egid |-> egids[i]]]

\* A call of Preprocessor.map_ensbl_to_name
PreCall ==
    /\ pre_pc = "call"
    /\ \E egids \in SeqsUpTo({ Str(e) : e \in EgidPool } \cup { NaN }, MaxRows) :
          pre_input = WithRowNumbers(egids)
    /\ pre_mapping \in Dicts(EgidPool, MappingEntries)
    /\ pre_output = <<>>
    /\ pre_error = "none"

\* Gene symbols of data.var, the Ensembl ids they map to, the genes of a
\* token dictionary.
SymbolPool == { "TP53", "tp53" }
IdPool == { None, Str(<<"ENSG1">>) }
TokenKeys == { "<pad>", "ENSG1", "ENSG2" }
TokenFiles ==
    { f \in SeqsUpTo([k : TokenKeys, v : 0..MaxTokenId], Cardinality(TokenKeys)) :
         \A i, j \in DOMAIN f : f[i].k = f[j].k => i = j }

\* A call of Geneformer.process_data
GfCall ==
    /\ gf_pc = "call"
    /\ use_gene_symbols \in BOOLEAN
    /\ gene_symbols \in SeqsUpTo(SymbolPool, MaxRows)
    /\ ensembl_id = [i \in DOMAIN gene_symbols |-> Str(<<"ENSG2">>)]
    /\ mappings \in Dicts(SymbolPool, IdPool)
    /\ token_file \in TokenFiles
    /\ gene_token_dict = EmptyDict
    /\ token_gene_dict = EmptyDict
    /\ pad_token_id = {}

(***************************************************************************)
(* Spec: calls of the aligner                                              *)
(***************************************************************************)
Init == AlignCall /\ PreIdle /\ GfIdle /\ ClIdle /\ TtIdle

Next ==
    \/ CheckSpecies
    \/ LoadEmbeddings
    \/ Intersect
    \/ Subset
    \/ StackAndReturn

Spec == Init /\ [][Next]_vars

(***************************************************************************)
(* SpecMapper: calls of the two identifier mappers                         *)
(***************************************************************************)
InitMapper ==
    \/ AlignIdle /\ PreCall /\ GfIdle /\ ClIdle /\ TtIdle
    \/ AlignIdle /\ PreIdle /\ GfCall /\ ClIdle /\ TtIdle

NextMapper ==
    \/ MapEnsblToName
    \/ ProcessData

SpecMapper == InitMapper /\ [][NextMapper]_vars

(***************************************************************************)
(* SpecClassifier: a Classifier is constructed, then its methods are       *)
(* called in any order                                                     *)
(***************************************************************************)
InitClassifier == AlignIdle /\ PreIdle /\ GfIdle /\ ClNew /\ TtIdle

NextClassifier ==
    \/ ClassifierInit
    \/ TrainTaskModels
    \/ GetPredictions
    \/ GetEvaluations

SpecClassifier == InitClassifier /\ [][NextClassifier]_vars

(***************************************************************************)
(* Calls of Preprocessor.transform_table                                   *)
(***************************************************************************)
SubjectPool == { 1, 2 }
SamplePool == { 1 }
CountPool == { Num(1), Num(2), NaN }
BatchPool == { 1, 2 }
DurationPool == { 2 }

\* The mappings: E1 is "ab"; E2 is "Ab", "B", or no key of the mapping
TableMappings ==
    { [e \in { <<"E1">> } |-> [has_display_name |-> TRUE, display_name |-> Str(<<"a", "b">>)]] }
    \cup { [e \in EgidPool |->
              [has_display_name |-> TRUE,
               display_name |-> IF e = <<"E1">> THEN Str(<<"a", "b">>) ELSE Str(n)]] :
           n \in { <<"A", "b">>, <<"B">> } }

TableRows ==
    [egid : { Str(e) : e \in EgidPool }, subject : SubjectPool, sample : SamplePool,
     rcnt : CountPool, batch : BatchPool, duration : DurationPool]

\* A call of transform_table on a table of at least one row
TableCall ==
    /\ pre_pc = "call"
    /\ \E rows \in SeqsUpTo(TableRows, MaxTableRows) \ { <<>> } :
          pre_input = [i \in DOMAIN rows |->
              [row |-> i, egid |-> rows[i].egid, subject |-> rows[i].subject,
               sample |-> rows[i].sample, rcnt |-> rows[i].rcnt,
               batch |-> rows[i].batch, duration |-> rows[i].duration]]
    /\ pre_mapping \in TableMappings
    /\ pre_output = <<>>
    /\ pre_error = "none"
    /\ tt_pc = "call"
    /\ full_df = <<>>
    /\ full_obs = <<>>
    /\ adata_obs = <<>>
    /\ tt_error = "none"

InitTable == AlignIdle /\ TableCall /\ GfIdle /\ ClIdle

NextTable == TransformTable

SpecTable == InitTable /\ [][NextTable]_vars

(***************************************************************************)
(* SpecNorm: both normalising call sites on a pair of identifiers x, y     *)
(* drawn from strings with letters of both cases and spaces.  x is the     *)
(* dataset's gene and the name of E1, y the only key of the human file and *)
(* the name of E2.                                                         *)
(***************************************************************************)
NormAlphabet == { "a", "A", " " }
NormPool == UNION { [1..n -> NormAlphabet] : n \in 1..MaxSymLen }

InitNorm ==
    /\ \E x, y \in NormPool :
          /\ var_names = <<x>>
          /\ files = [sp \in FileSpecies |-> IF sp = "human" THEN <<y>> ELSE <<>>]
          /\ pre_mapping = [e \in EgidPool |->
                 [has_display_name |-> TRUE,
                  display_name |-> IF e = <<"E1">> THEN Str(x) ELSE Str(y)]]
    /\ species_names = <<"human">>
    /\ dims = [sp \in FileSpecies |-> MinDim]
    /\ pc = "check"
    /\ species_to_gene_symbol_to_embedding = EmptyDict
    /\ genes_with_embeddings = {}
    /\ adata = var_names
    /\ species_to_gene_embeddings = EmptyDict
    /\ error = "none"
    /\ returned = FALSE
    /\ pre_pc = "call"
    /\ pre_input = WithRowNumbers(<<Str(<<"E1">>), Str(<<"E2">>)>>)
    /\ pre_output = <<>>
    /\ pre_error = "none"
    /\ GfIdle
    /\ ClIdle
    /\ TtIdle

NextNorm ==
    \/ CheckSpecies
    \/ LoadEmbeddings
    \/ Intersect
    \/ Subset
    \/ StackAndReturn
    \/ MapEnsblToName

SpecNorm == InitNorm /\ [][NextNorm]_vars

(***************************************************************************)
(* Vocabulary of the properties                                            *)
(***************************************************************************)
\* Two characters are the same letter in either case.
SameLetter(c, d) == c = d \/ { c, d } \in { { "a", "A" }, { "b", "B" } }

\* Two strings differ at most in letter case.
CaseInsensitiveEq(x, y) ==
    Len(x) = Len(y) /\ \A i \in DOMAIN x : SameLetter(x[i], y[i])

\* A string without its leading and trailing spaces.
RECURSIVE StripLeft(_)
StripLeft(x) == IF x # <<>> /\ Head(x) = " " THEN StripLeft(Tail(x)) ELSE x

RECURSIVE StripRight(_)
StripRight(x) ==
    IF x # <<>> /\ x[Len(x)] = " " THEN StripRight(SubSeq(x, 1, Len(x) - 1)) ELSE x

Strip(x) == StripRight(StripLeft(x))

\* Two strings differ at most in letter case and surrounding whitespace.
CaseAndSpaceInsensitiveEq(x, y) == CaseInsensitiveEq(Strip(x), Strip(y))

IsDistinct(s) == \A i, j \in DOMAIN s : s[i] = s[j] => i = j

\* a is a subsequence of b: a's elements are b's at increasing positions.
IsSubsequence(a, b) ==
    \E f \in [DOMAIN a -> DOMAIN b] :
        /\ \A i \in DOMAIN a : b[f[i]] = a[i]
        /\ \A i, j \in DOMAIN a : i < j => f[i] < f[j]

\* Species sp's file has a key that is gene g up to letter case.
HasKeyFor(sp, g) == \E i \in DOMAIN files[sp] : CaseInsensitiveEq(files[sp][i], g)

\* The last key of sp's file that is gene g up to letter case.
LastKeyFor(sp, g) ==
    files[sp][CHOOSE i \in DOMAIN files[sp] :
                 /\ CaseInsensitiveEq(files[sp][i], g)
                 /\ \A j \in DOMAIN files[sp] :
                       CaseInsensitiveEq(files[sp][j], g) => j <= i]

Requested == Range(species_names)
AllRegistered == Requested \subseteq available_species

\* The dataset has been subset (line 71 has run).
Subsetted == pc = "stack" \/ (pc = "done" /\ error \in { "none", "RuntimeError" } /\ AllRegistered /\ Requested # {})

(***************************************************************************)
(* Properties of load_gene_embeddings_adata                                *)
(***************************************************************************)

\* C1: when a requested species has no registered embedding file, the call
\* ends with the unsupported-species error (the ValueError of line 54), and
\* at no point of the call is an embedding table loaded or the dataset subset.
C1_UnsupportedSpeciesFailsFirst ==
    (pc # "idle" /\ ~AllRegistered) =>
        /\ pc \in { "check", "done" }
        /\ pc = "done" => error = "ValueError"
        /\ species_to_gene_symbol_to_embedding = EmptyDict
        /\ adata = var_names
        /\ ~returned

\* A call that failed on an unregistered species although a registered one,
\* with a non-empty file, was requested as well, on a dataset with genes.
C1_Witness ==
    /\ pc = "done"
    /\ error = "ValueError"
    /\ var_names # <<>>
    /\ \E sp \in Requested \cap FileSpecies : files[sp] # <<>>

\* C2: once the dataset is subset, each of its genes is a gene of the input
\* dataset and, up to letter case, a key of every requested species' file.
C2_AlignmentIntersection ==
    Subsetted =>
        /\ Range(adata) \subseteq Range(var_names)
        /\ \A sp \in Requested : \A g \in Range(adata) : HasKeyFor(sp, g)

\* A returned alignment over two species that kept a gene and dropped one.
C2_Witness ==
    /\ returned
    /\ Cardinality(Requested) = 2
    /\ adata # <<>>
    /\ Range(adata) # Range(var_names)

\* C3: the columns of the subset dataset are a subsequence of the input
\* dataset's columns: same spelling, same relative order.
C3_ColumnsAreSubsequence ==
    Subsetted => IsSubsequence(adata, var_names)

\* A returned alignment that kept two different genes, the first of them
\* spelled with an upper-case letter.
C3_Witness ==
    /\ returned
    /\ Len(adata) = 2
    /\ adata[1] # adata[2]
    /\ adata[1] # Lower(adata[1])

\* No gene of the input dataset has, up to letter case, a key in the file of
\* every requested species.
EmptyIntersection == \A g \in Range(var_names) : \E sp \in Requested : ~HasKeyFor(sp, g)

\* C4: an alignment whose gene intersection is empty ends with an error (the
\* RuntimeError torch.stack raises on an empty list) and returns nothing.
C4_EmptyAlignmentFails ==
    (pc = "done" /\ AllRegistered /\ Requested # {} /\ EmptyIntersection) =>
        /\ error = "RuntimeError"
        /\ ~returned
        /\ species_to_gene_embeddings = EmptyDict

\* A failed call on a dataset with genes and non-empty files, none in common.
C4_Witness ==
    /\ pc = "done"
    /\ error = "RuntimeError"
    /\ var_names # <<>>
    /\ \A sp \in Requested : files[sp] # <<>>

\* C5: no lookup of line 75 misses, and in a returned alignment every
\* species' matrix has one row per column of the returned dataset, row i
\* being the tensor that species' file holds for the i-th column's gene.
C5_MatrixRowsFollowColumns ==
    /\ pc = "done" => error # "KeyError"
    /\ returned =>
          \A sp \in Requested :
              /\ Len(species_to_gene_embeddings[sp]) = Len(adata)
              /\ \A i \in DOMAIN adata :
                    /\ HasKeyFor(sp, adata[i])
                    /\ species_to_gene_embeddings[sp][i] = Vec(sp, LastKeyFor(sp, adata[i]))

\* A returned two-species alignment of two columns, one spelled in upper case.
C5_Witness ==
    /\ returned
    /\ Cardinality(Requested) = 2
    /\ Len(adata) = 2
    /\ \E i \in DOMAIN adata : adata[i] # Lower(adata[i])

\* C9 as stated: the columns of the subset dataset are pairwise distinct,
\* whatever the input dataset's gene list.
C9_ColumnsDistinct ==
    Subsetted => IsDistinct(adata)

\* C9 amended: if the input dataset's genes are pairwise distinct, so are the
\* columns of the subset dataset.
C9_DistinctPreserved ==
    (Subsetted /\ IsDistinct(var_names)) => IsDistinct(adata)

\* A returned alignment that kept two spellings of one gene.
C9_Witness ==
    /\ returned
    /\ IsDistinct(var_names)
    /\ Len(adata) = 2
    /\ CaseInsensitiveEq(adata[1], adata[2])

\* C10: a returned alignment's matrices all have the same width, i.e. an
\* alignment over files of different vector dimensions does not return.
C10_SameDimensionEnforced ==
    returned =>
        \A sp1, sp2 \in Requested : \A i \in DOMAIN adata :
            species_to_gene_embeddings[sp1][i].dim = species_to_gene_embeddings[sp2][i].dim

(***************************************************************************)
(* Properties of the identifier mappers and of the vocabulary              *)
(***************************************************************************)

\* The row's identifier has a mapping entry whose name is a non-empty string.
HasUsableName(r) ==
    /\ ~IsNa(r.egid)
    /\ r.egid.s \in DOMAIN pre_mapping
    /\ pre_mapping[r.egid.s].has_display_name
    /\ pre_mapping[r.egid.s].display_name.kind = "str"
    /\ pre_mapping[r.egid.s].display_name.s # <<>>

RowNumbers(rows) == [i \in DOMAIN rows |-> rows[i].row]

\* C6: neither mapper throws on partial coverage.  map_ensbl_to_name returns
\* exactly the rows whose identifier has a non-null, non-empty mapped name,
\* and process_data marks a gene symbol without a mapping entry, or with a
\* null one, as unmapped (None) and gives every other symbol its id.
C6_MapperNeverThrows ==
    /\ pre_pc = "done" =>
          /\ pre_error = "none"
          /\ RowNumbers(pre_output) = RowNumbers(SelectSeq(pre_input, HasUsableName))
    /\ (gf_pc = "done" /\ use_gene_symbols) =>
          /\ Len(ensembl_id) = Len(gene_symbols)
          /\ \A i \in DOMAIN gene_symbols :
                ensembl_id[i] = IF gene_symbols[i] \in DOMAIN mappings
                                THEN mappings[gene_symbols[i]]
                                ELSE None

\* The two identifiers of a normalisation case.
NormX == var_names[1]
NormY == files["human"][1]

\* x and y normalise to the same key at both call sites: the aligner keeps
\* the dataset's gene x for the table key y, and the preprocessor gives the
\* rows of E1 and E2 the same gene name.
NormaliseAlike ==
    /\ pc = "done" => (returned /\ adata = <<NormX>>)
    /\ pre_pc = "done" =>
          /\ Len(pre_output) = 2
          /\ pre_output[1].gene_name = pre_output[2].gene_name

\* C7 as stated: identifiers that differ only in letter case or surrounding
\* whitespace normalise to the same key.
C7_CaseAndSpaceNormalised ==
    CaseAndSpaceInsensitiveEq(NormX, NormY) => NormaliseAlike

\* C7 amended: identifiers that differ only in letter case normalise to the
\* same key.
C7_CaseNormalised ==
    CaseInsensitiveEq(NormX, NormY) => NormaliseAlike

\* Both calls done on two different spellings of one identifier.
C7_Witness ==
    /\ pc = "done"
    /\ pre_pc = "done"
    /\ NormX # NormY
    /\ CaseInsensitiveEq(NormX, NormY)
    /\ returned

\* C8: after process_data, token_gene_dict maps the token id of every gene of
\* gene_token_dict back to that gene.
C8_VocabularyRoundTrip ==
    gf_pc = "done" =>
        \A g \in DOMAIN gene_token_dict :
            /\ gene_token_dict[g] \in DOMAIN token_gene_dict
            /\ token_gene_dict[gene_token_dict[g]] = g

(***************************************************************************)
(* Properties of the Classifier                                            *)
(***************************************************************************)

\* C11: get_evaluations encodes the evaluation labels with the encoder as
\* fitted on the training labels, and leaves that encoder as it was.
C11_SameEncoderForEvaluation ==
    cl_pc = "ready" =>
        /\ encoder_classes = FitClasses(cl_labels)
        /\ (cl_call.op = "evaluate" /\ Range(cl_call.eval_labels) \subseteq Range(cl_labels)) =>
              \A m \in DOMAIN cl_call.evaluations :
                  cl_call.evaluations[m].y_true =
                      Transform(FitClasses(cl_labels), cl_call.eval_labels)

\* What a call of get_predictions or get_evaluations leaves alone, and what
\* no call does.
TrainedModelsKept ==
    /\ cl_call'.op \in { "predict", "evaluate" } => trained_models' = trained_models
    /\ DOMAIN trained_models \subseteq DOMAIN trained_models'

LargestCount(G, g) ==
    LET counts == { r.rcnt.s[1] : r \in { q \in G : q.gene_name = g /\ ~IsNa(q.rcnt) } }
    IN CHOOSE c \in counts : \A d \in counts : d <= c

\* C12: when transform_table is done, the expression matrix and obs hold one
\* row per (subject, sample) group of the mapped table, both in the order of
\* the groups, and the column of every gene of a group that has a count holds
\* the largest of its counts.
C12_OneRowPerGroup ==
    (tt_pc = "done" /\ pre_error = "none") =>
        LET rows == GeneExpressions(pre_input, pre_output)
            keys == SortedKeys(GroupKeys(rows))
        IN /\ tt_error = "none"
           /\ Len(full_df) = Len(keys)
           /\ Len(adata_obs) = Len(keys)
           /\ \A i \in DOMAIN keys :
                 /\ full_df[i].group = keys[i]
                 /\ adata_obs[i].subject = SubjectStr(keys[i][1])
                 /\ adata_obs[i].sample = keys[i][2]
                 /\ \A g \in GroupGenes(GroupRows(rows, keys[i])) :
                       (\E r \in GroupRows(rows, keys[i]) : r.gene_name = g /\ ~IsNa(r.rcnt)) =>
                           /\ g \in DOMAIN full_df[i].X
                           /\ full_df[i].X[g] = LargestCount(GroupRows(rows, keys[i]), g)

====
